---- MODULE Spec2Model ----
(***************************************************************************)
(* islplot/plotter.py: rendering of two dimensional isl sets and maps on   *)
(* a matplotlib canvas.  The canvas is the sequence of drawing primitives  *)
(* (plot calls, annotate arrows, path patches) issued so far.  Every       *)
(* plot_* function is one action that appends the primitives the function *)
(* issues, up to the assertion that stops it when one fails.               *)
(***************************************************************************)
EXTENDS Integers, Sequences, FiniteSets, TLC

VARIABLES canvas, before, call, err, log, order

vars == <<canvas, before, call, err, log, order>>

\* Extent of the integer lattice window the inputs are drawn from.
MaxX == 2
MaxY == 1
\* Largest number of points of an input set given point by point.
MaxPoints == 3

(***************************************************************************)
(* Points, sets and maps of the geometry library (islpy).                  *)
(* A point is a function from its dimensions 0..d-1 to integers, a set is  *)
(* a finite set of points, a map is a set of pairs <<input, output>>.      *)
(***************************************************************************)
Pt(x, y) == [d \in 0..1 |-> IF d = 0 THEN x ELSE y]

Tid(t) == [d \in 0..0 |-> t]

Grid == {Pt(x, y) : x \in 0..MaxX, y \in 0..MaxY}

None == <<>>

Some(v) == <<v>>

NoColor == "None"

get_point_coordinates(point) ==
    [i \in 1..Cardinality(DOMAIN point) |-> point[i - 1]]

\* p comes before q in the lexicographic order of the coordinates
LexLess(p, q) ==
    \E d \in DOMAIN p : p[d] < q[d] /\ \A e \in DOMAIN p : e < d => p[e] = q[e]

Precedes(p, q) == IF order = "lexmin" THEN LexLess(p, q) ELSE LexLess(q, p)

RECURSIVE foreach_point(_)
foreach_point(set_data) ==
    IF set_data = {} THEN <<>>
    ELSE LET first == CHOOSE p \in set_data :
                          \A q \in set_data \ {p} : Precedes(p, q)
         IN <<first>> \o foreach_point(set_data \ {first})

range(m) == {pr[2] : pr \in m}

domain(m) == {pr[1] : pr \in m}

from_point(point) == {point}

intersect_range(m, s) == {pr \in m : pr[2] \in s}

intersect_domain(m, s) == {pr \in m : pr[1] \in s}

reverse(m) == {<<pr[2], pr[1]>> : pr \in m}

apply(s, m) == {pr[2] : pr \in {q \in m : q[1] \in s}}

\* m.apply_range(n): the pairs (a, c) with (a, b) in m and (b, c) in n
apply_range(m, n) ==
    {<<x[1][1], x[2][2]>> : x \in {y \in m \X n : y[1][2] = y[2][1]}}

\* m.apply_domain(n): the pairs (c, b) with (a, b) in m and (a, c) in n
apply_domain(m, n) ==
    {<<x[2][2], x[1][2]>> : x \in {y \in m \X n : y[1][1] = y[2][1]}}

subtract(m, n) == m \ n

(***************************************************************************)
(* Convex geometry of the library on finite sets of lattice points.        *)
(***************************************************************************)
Min(S) == CHOOSE v \in S : \A w \in S : v <= w

Max(S) == CHOOSE v \in S : \A w \in S : v >= w

Cross(a, b, c) ==
    (b[0] - a[0]) * (c[1] - a[1]) - (b[1] - a[1]) * (c[0] - a[0])

\* the lattice points of the bounding box of S, widened by offset
Box(S, offset) ==
    IF S = {} THEN {}
    ELSE {Pt(x, y) :
            x \in (Min({p[0] : p \in S}) - offset)..(Max({p[0] : p \in S}) + offset),
            y \in (Min({p[1] : p \in S}) - offset)..(Max({p[1] : p \in S}) + offset)}

OnSegment(p, a, b) ==
    /\ Cross(a, b, p) = 0
    /\ Min({a[0], b[0]}) <= p[0] /\ p[0] <= Max({a[0], b[0]})
    /\ Min({a[1], b[1]}) <= p[1] /\ p[1] <= Max({a[1], b[1]})

InTriangle(p, a, b, c) ==
    LET d1 == Cross(a, b, p)
        d2 == Cross(b, c, p)
        d3 == Cross(c, a, p)
    IN /\ Cross(a, b, c) # 0
       /\ \/ (d1 >= 0 /\ d2 >= 0 /\ d3 >= 0)
          \/ (d1 <= 0 /\ d2 <= 0 /\ d3 <= 0)

InHull(p, S) ==
    \/ \E a \in S, b \in S : OnSegment(p, a, b)
    \/ \E a \in S, b \in S, c \in S : InTriangle(p, a, b, c)

\* A basic set: the lattice points of the convex hull of pts, extended along
\* the directions in rays; it is bounded when it has no ray.
BSet(pts, rays) == [pts |-> pts, rays |-> rays]

convex_hull(S) == BSet({p \in Box(S, 0) : InHull(p, S)}, {})

is_bounded(bset) == bset.rays = {}

get_rectangular_hull(set_data, offset) == Box(set_data, offset)

Extreme(S) == {p \in S : ~InHull(p, S \ {p})}

RECURSIVE Winding(_, _, _)
Winding(E, u, rest) ==
    IF rest = {} THEN <<>>
    ELSE LET w == CHOOSE v \in rest : \A q \in E : Cross(u, v, q) >= 0
         IN <<w>> \o Winding(E, w, rest \ {w})

\* the corners of the basic set, counterclockwise from the lexicographically
\* smallest one
bset_get_vertex_coordinates(bset) ==
    LET E == Extreme(bset.pts)
    IN IF E = {} THEN <<>>
       ELSE LET first == CHOOSE p \in E : \A q \in E \ {p} : LexLess(p, q)
                walk == <<first>> \o Winding(E, first, E \ {first})
            IN [i \in 1..Len(walk) |-> get_point_coordinates(walk[i])]

(***************************************************************************)
(* Drawing primitives of the plotting library (matplotlib).                *)
(***************************************************************************)
plt_plot(dimX, dimY, marker, size, color, lw) ==
    [kind |-> "plot", x |-> dimX, y |-> dimY, marker |-> marker,
     markersize |-> size, color |-> color, lw |-> lw]

\* annotate draws the arrow from xytext (its tail) to xy (its head)
annotate(xy, xytext, style, width, color) ==
    [kind |-> "arrow", xy |-> xy, xytext |-> xytext, arrowstyle |-> style,
     linewidth |-> width, color |-> color, shrinkA |-> 10, shrinkB |-> 10]

ArrowTail(arrow) == arrow.xytext

ArrowHead(arrow) == arrow.xy

add_patch(verts, codes, facecolor) ==
    [kind |-> "patch", verts |-> verts, codes |-> codes, facecolor |-> facecolor]

\* What a call leaves behind: the primitives it drew, the calls it made into
\* the geometry library that the assertions guard, and how it ended.
Ok == "ok"

BoundedError == "Expected bounded set"

ConvexError == "part_set == part_set_convex"

Result(prims, calls, e) == [prims |-> prims, log |-> calls, err |-> e]

(***************************************************************************)
(* The functions of plotter.py.                                            *)
(***************************************************************************)
plot_set_points(set_data, color, size, marker) ==
    LET pts == foreach_point(set_data)
        points == [i \in 1..Len(pts) |-> get_point_coordinates(pts[i])]
        dimX == [i \in 1..Len(points) |-> points[i][1]]
        dimY == [i \in 1..Len(points) |-> points[i][2]]
    IN <<plt_plot(dimX, dimY, marker, size, color, "0")>>

\* _plot_arrow with the two ends handed to annotate the other way round
plot_arrow_reversed(start, end, style, width, color) ==
    annotate(start, end, style, width, color)

_plot_arrow(start, end, style, width, color) ==
    annotate(end, start, style, width, color)

RECURSIVE Flatten(_)
Flatten(seqs) ==
    IF seqs = <<>> THEN <<>> ELSE seqs[1] \o Flatten(Tail(seqs))

plot_map(map_data, edge_style, edge_width, color) ==
    LET start_points == foreach_point(range(map_data))
        arrows(start) ==
            LET limited == intersect_range(map_data, from_point(start))
                end_points == foreach_point(domain(limited))
            IN [j \in 1..Len(end_points) |->
                    _plot_arrow(get_point_coordinates(end_points[j]),
                                get_point_coordinates(start),
                                edge_style, edge_width, color)]
    IN Flatten([i \in 1..Len(start_points) |-> arrows(start_points[i])])

\* one result after another; a failed first one stops the sequence
Then(r1, r2) ==
    IF r1.err # Ok THEN r1
    ELSE Result(r1.prims \o r2.prims, r1.log \o r2.log, r2.err)

\* shape_body without the return on an empty vertex list
shape_body_no_return(bset_data, show_vertices, color, vertex_color, vertex_marker, vertex_size) ==
    LET vcolor == IF vertex_color = NoColor THEN color ELSE vertex_color
        vertices == bset_get_vertex_coordinates(bset_data)
        dimX == [i \in 1..Len(vertices) |-> vertices[i][1]]
        dimY == [i \in 1..Len(vertices) |-> vertices[i][2]]
        marks == IF show_vertices
                 THEN <<plt_plot(dimX, dimY, vertex_marker, vertex_size,
                                 vcolor, "default")>>
                 ELSE <<>>
        codes == [i \in 1..Len(vertices) |-> IF i = 1 THEN "MOVETO" ELSE "LINETO"]
        patch == add_patch(Append(vertices, <<0, 0>>),
                           Append(codes, "CLOSEPOLY"), color)
    IN Result(Append(marks, patch), <<"bset_get_vertex_coordinates">>, Ok)

\* shape_body building the path from the vertices in reverse order
shape_body_reversed(bset_data, show_vertices, color, vertex_color, vertex_marker, vertex_size) ==
    LET vcolor == IF vertex_color = NoColor THEN color ELSE vertex_color
        given == bset_get_vertex_coordinates(bset_data)
        vertices == [i \in 1..Len(given) |-> given[Len(given) + 1 - i]]
        dimX == [i \in 1..Len(vertices) |-> vertices[i][1]]
        dimY == [i \in 1..Len(vertices) |-> vertices[i][2]]
        marks == IF show_vertices
                 THEN <<plt_plot(dimX, dimY, vertex_marker, vertex_size,
                                 vcolor, "default")>>
                 ELSE <<>>
        codes == [i \in 1..Len(vertices) |-> IF i = 1 THEN "MOVETO" ELSE "LINETO"]
        patch == add_patch(Append(vertices, <<0, 0>>),
                           Append(codes, "CLOSEPOLY"), color)
    IN IF Len(vertices) = 0
       THEN Result(marks, <<"bset_get_vertex_coordinates">>, Ok)
       ELSE Result(Append(marks, patch), <<"bset_get_vertex_coordinates">>, Ok)

\* lines 88-113 of plot_bset_shape: what follows the boundedness assertion
shape_body(bset_data, show_vertices, color, vertex_color, vertex_marker, vertex_size) ==
    LET vcolor == IF vertex_color = NoColor THEN color ELSE vertex_color
        vertices == bset_get_vertex_coordinates(bset_data)
        dimX == [i \in 1..Len(vertices) |-> vertices[i][1]]
        dimY == [i \in 1..Len(vertices) |-> vertices[i][2]]
        marks == IF show_vertices
                 THEN <<plt_plot(dimX, dimY, vertex_marker, vertex_size,
                                 vcolor, "default")>>
                 ELSE <<>>
        codes == [i \in 1..Len(vertices) |-> IF i = 1 THEN "MOVETO" ELSE "LINETO"]
        patch == add_patch(Append(vertices, <<0, 0>>),
                           Append(codes, "CLOSEPOLY"), color)
    IN IF Len(vertices) = 0
       THEN Result(marks, <<"bset_get_vertex_coordinates">>, Ok)
       ELSE Result(Append(marks, patch), <<"bset_get_vertex_coordinates">>, Ok)

\* plot_bset_shape with the boundedness assertion after the drawing
plot_bset_shape_late_check(bset_data, show_vertices, color, vertex_color, vertex_marker, vertex_size) ==
    LET r == shape_body(bset_data, show_vertices, color, vertex_color,
                        vertex_marker, vertex_size)
    IN IF ~is_bounded(bset_data)
       THEN Result(r.prims, r.log \o <<"is_bounded">>, BoundedError)
       ELSE Result(r.prims, r.log \o <<"is_bounded">>, Ok)

plot_bset_shape(bset_data, show_vertices, color, vertex_color, vertex_marker, vertex_size) ==
    IF ~is_bounded(bset_data)
    THEN Result(<<>>, <<"is_bounded">>, BoundedError)
    ELSE Then(Result(<<>>, <<"is_bounded">>, Ok),
              shape_body(bset_data, show_vertices, color, vertex_color,
                         vertex_marker, vertex_size))

RECURSIVE foreach_basic_set(_, _)
foreach_basic_set(set_data, show_vertices) ==
    IF set_data = <<>> THEN Result(<<>>, <<>>, Ok)
    ELSE Then(plot_bset_shape(set_data[1], show_vertices, "gray", NoColor, "o", 10),
              foreach_basic_set(Tail(set_data), show_vertices))

plot_set_shapes(set_data, show_vertices) ==
    IF \E i \in 1..Len(set_data) : ~is_bounded(set_data[i])
    THEN Result(<<>>, <<"is_bounded">>, BoundedError)
    ELSE Then(Result(<<>>, <<"is_bounded">>, Ok),
              foreach_basic_set(set_data, show_vertices))

\* plot_group with the points of the group plotted before the assertion
plot_group_points_first(bmap, point, color, vcolor, vertex_marker, vertex_size) ==
    LET point_set == from_point(point)
        part_set == domain(intersect_range(bmap, point_set))
        part_set_convex == convex_hull(part_set)
        points == plot_set_points(part_set, vcolor, vertex_size, vertex_marker)
    IN IF part_set # part_set_convex.pts
       THEN Result(points, <<"convex_hull">>, ConvexError)
       ELSE Then(Result(points, <<"convex_hull">>, Ok),
                 plot_bset_shape(part_set_convex, TRUE, color, vcolor,
                                 vertex_marker, vertex_size))

plot_group(bmap, point, color, vcolor, vertex_marker, vertex_size) ==
    LET point_set == from_point(point)
        part_set == domain(intersect_range(bmap, point_set))
        part_set_convex == convex_hull(part_set)
    IN IF part_set # part_set_convex.pts
       THEN Result(<<>>, <<"convex_hull">>, ConvexError)
       ELSE Then(Result(plot_set_points(part_set_convex.pts, vcolor,
                                        vertex_size, vertex_marker),
                        <<"convex_hull">>, Ok),
                 plot_bset_shape(part_set_convex, TRUE, color, vcolor,
                                 vertex_marker, vertex_size))

RECURSIVE plot_groups(_, _, _, _, _, _)
plot_groups(bmap, points, color, vcolor, vertex_marker, vertex_size) ==
    IF points = <<>> THEN Result(<<>>, <<>>, Ok)
    ELSE Then(plot_group(bmap, points[1], color, vcolor, vertex_marker, vertex_size),
              plot_groups(bmap, Tail(points), color, vcolor, vertex_marker, vertex_size))

\* plot_map_as_groups with every group checked before any is drawn
plot_map_as_groups_check_first(bmap, color, vertex_color, vertex_marker, vertex_size) ==
    LET vcolor == IF vertex_color = NoColor THEN color ELSE vertex_color
        points == foreach_point(range(bmap))
    IN IF \E i \in 1..Len(points) :
              LET part_set == domain(intersect_range(bmap, from_point(points[i])))
              IN part_set # convex_hull(part_set).pts
       THEN Result(<<>>, <<"convex_hull">>, ConvexError)
       ELSE plot_groups(bmap, points, color, vcolor, vertex_marker, vertex_size)

plot_map_as_groups(bmap, color, vertex_color, vertex_marker, vertex_size) ==
    LET vcolor == IF vertex_color = NoColor THEN color ELSE vertex_color
        points == foreach_point(range(bmap))
    IN plot_groups(bmap, points, color, vcolor, vertex_marker, vertex_size)

transformed_domain(dom, space) ==
    IF space # None THEN apply(dom, space[1]) ELSE dom

transformed_dependences(dependences, space) ==
    IF space # None /\ dependences # None
    THEN Some(apply_domain(apply_range(dependences[1], space[1]), space[1]))
    ELSE dependences

transformed_tiling(tiling, space) ==
    IF space # None /\ tiling # None
    THEN Some(apply_domain(tiling[1], space[1]))
    ELSE tiling

\* draw_background with the hull taken without its margin
draw_background_no_margin(dom, background, vertex_size, vertex_marker) ==
    LET hull == get_rectangular_hull(dom, 0)
    IN IF background
       THEN plot_set_points(hull, "lightgray", vertex_size, vertex_marker)
       ELSE <<>>

\* lines 198-202: the points of the rectangular hull, when asked for
draw_background(dom, background, vertex_size, vertex_marker) ==
    LET hull == get_rectangular_hull(dom, 1)
    IN IF background
       THEN plot_set_points(hull, "lightgray", vertex_size, vertex_marker)
       ELSE <<>>

\* draw_dependences restricting the range of the dependences only
draw_dependences_range_only(dependences, dom, tiling) ==
    IF dependences # None
    THEN LET inside == intersect_range(dependences[1], dom)
             kept == IF tiling # None
                     THEN LET same_tile == apply_range(tiling[1], reverse(tiling[1]))
                          IN subtract(inside, same_tile)
                     ELSE inside
         IN plot_map(kept, "->", 1, "gray")
    ELSE <<>>

\* lines 207-213: the dependences within the domain and across tiles
draw_dependences(dependences, dom, tiling) ==
    IF dependences # None
    THEN LET inside == intersect_domain(intersect_range(dependences[1], dom), dom)
             kept == IF tiling # None
                     THEN LET same_tile == apply_range(tiling[1], reverse(tiling[1]))
                          IN subtract(inside, same_tile)
                     ELSE inside
         IN plot_map(kept, "->", 1, "gray")
    ELSE <<>>

\* lines 215-218: the tiles as groups
draw_tiling(tiling, dom, tile_color, vertex_color, vertex_size, vertex_marker) ==
    IF tiling # None
    THEN plot_map_as_groups(intersect_domain(tiling[1], dom), tile_color,
                            vertex_color, vertex_marker, vertex_size)
    ELSE Result(<<>>, <<>>, Ok)

\* plot_domain rendering the tiling before the dependences
scene_tiles_first(back, front, arrows, tiles) ==
    Then(Then(Result(back \o front, <<>>, Ok), tiles), Result(arrows, <<>>, Ok))

\* the statements of plot_domain in the order it runs them
scene(back, front, arrows, tiles) ==
    Then(Result(back \o front \o arrows, <<>>, Ok), tiles)

plot_domain(dom, dependences, tiling, space, tile_color, vertex_color, vertex_size, vertex_marker, background) ==
    LET domain1 == transformed_domain(dom, space)
        deps1 == transformed_dependences(dependences, space)
        tiling1 == transformed_tiling(tiling, space)
    IN scene(draw_background(domain1, background, vertex_size, vertex_marker),
             plot_set_points(domain1, vertex_color, vertex_size, vertex_marker),
             draw_dependences(deps1, domain1, tiling1),
             draw_tiling(tiling1, domain1, tile_color, vertex_color,
                         vertex_size, vertex_marker))

(***************************************************************************)
(* The inputs of the calls.                                                *)
(***************************************************************************)
RECURSIVE KSubsets(_, _)
KSubsets(S, k) ==
    IF k = 0 THEN {{}}
    ELSE LET smaller == KSubsets(S, k - 1)
         IN smaller \cup {s \cup {e} : s \in smaller, e \in S}

Sets == KSubsets(Grid, MaxPoints)

Boxes == {{}} \cup {Box({a, b}, 0) : a \in Grid, b \in Grid}

Plus(p, v) == Pt(p[0] + v[1], p[1] + v[2])

\* dependences at a constant distance, as loop nests have them
DepVectors == {<<1, 0>>, <<0, 1>>, <<2, 0>>}

DepMap(vs) == {pr \in Grid \X Grid : \E v \in vs : pr[2] = Plus(pr[1], v)}

DepMaps == {DepMap(vs) : vs \in SUBSET DepVectors}

\* the dependence maps of a scene: one distance, or all of them
SceneDeps == {DepMap({v}) : v \in DepVectors} \cup {DepMap(DepVectors)}

\* tilings by column, by row, by column parity and by blocks of two columns
Tilings ==
    { {<<p, Tid(p[0])>> : p \in Grid},
      {<<p, Tid(p[1])>> : p \in Grid},
      {<<p, Tid(p[0] % 2)>> : p \in Grid},
      {<<p, Tid(p[0] \div 2)>> : p \in Grid} }

\* loop interchange and loop skewing
Spaces ==
    { {<<p, Pt(p[1], p[0])>> : p \in Grid},
      {<<p, Pt(p[0] + p[1], p[1])>> : p \in Grid} }

Optional(S) == {None} \cup {Some(v) : v \in S}

RayDirs == {<<1, 0>>, <<0, 1>>}

BasicSets ==
    {BSet(S, r) : S \in {T \in Sets \cup Boxes : convex_hull(T).pts = T},
                  r \in SUBSET RayDirs} \ {BSet({}, r) : r \in (SUBSET RayDirs) \ {{}}}

\* a set given as the union of one basic set per point, the last of them
\* extended along a ray when open
Pieces(S, open) ==
    LET e == foreach_point(S)
    IN [i \in 1..Len(e) |->
           BSet({e[i]}, IF open /\ i = Len(e) THEN {<<1, 0>>} ELSE {})]

Orders == {"lexmin", "lexmax"}

PriorCanvases == {<<>>, <<plt_plot(<<0>>, <<0>>, "o", 10, "black", "0")>>}

(***************************************************************************)
(* The state machine: one call on a canvas that may hold earlier drawings. *)
(***************************************************************************)
Init ==
    /\ order \in Orders
    /\ canvas \in PriorCanvases
    /\ before = canvas
    /\ call = [op |-> "none"]
    /\ err = Ok
    /\ log = <<>>

Finish(c, r) ==
    /\ canvas' = canvas \o r.prims
    /\ before' = canvas
    /\ call' = c
    /\ err' = r.err
    /\ log' = r.log
    /\ UNCHANGED order

PlotSetPoints ==
    /\ call.op = "none"
    /\ \E S \in Sets :
          Finish([op |-> "plot_set_points", set_data |-> S],
                 Result(plot_set_points(S, "black", 10, "o"), <<>>, Ok))

PlotMap ==
    /\ call.op = "none"
    /\ \E D \in DepMaps, S \in Sets :
          LET m == intersect_domain(D, S)
          IN Finish([op |-> "plot_map", map_data |-> m],
                    Result(plot_map(m, "->", 1, "black"), <<>>, Ok))

PlotBsetShape ==
    /\ call.op = "none"
    /\ \E b \in BasicSets, show \in BOOLEAN :
          Finish([op |-> "plot_bset_shape", bset_data |-> b, show_vertices |-> show],
                 plot_bset_shape(b, show, "gray", NoColor, "o", 10))

PlotSetShapes ==
    /\ call.op = "none"
    /\ \E S \in Sets, open \in BOOLEAN, show \in BOOLEAN :
          LET set_data == Pieces(S, open)
          IN Finish([op |-> "plot_set_shapes", set_data |-> set_data,
                     show_vertices |-> show],
                    plot_set_shapes(set_data, show))

PlotMapAsGroups ==
    /\ call.op = "none"
    /\ \E T \in Tilings, S \in Sets :
          LET bmap == intersect_domain(T, S)
          IN Finish([op |-> "plot_map_as_groups", bmap |-> bmap],
                    plot_map_as_groups(bmap, "gray", NoColor, "o", 10))

PlotDomain ==
    /\ call.op = "none"
    /\ \E dom \in Boxes, deps \in Optional(SceneDeps), tiling \in Optional(Tilings),
          space \in Optional(Spaces), background \in BOOLEAN :
          Finish([op |-> "plot_domain", dom |-> dom, dependences |-> deps,
                  tiling |-> tiling, space |-> space, background |-> background],
                 plot_domain(dom, deps, tiling, space, "blue", "black", 10, "o",
                             background))

Next ==
    \/ PlotSetPoints
    \/ PlotMap
    \/ PlotBsetShape
    \/ PlotSetShapes
    \/ PlotMapAsGroups
    \/ PlotDomain

Spec == Init /\ [][Next]_vars

\* the primitives the call added to the canvas
Added == SubSeq(canvas, Len(before) + 1, Len(canvas))

\* the coordinate pairs a plot call covers
PlotPoints(prim) == {<<prim.x[i], prim.y[i]>> : i \in 1..Len(prim.x)}

Coord(p) == <<p[0], p[1]>>

Arrows == {i \in 1..Len(Added) : Added[i].kind = "arrow"}

Patches == {i \in 1..Len(Added) : Added[i].kind = "patch"}

\* the <<tail, head>> pairs of the arrows the call added
ArrowEnds == {<<ArrowTail(Added[i]), ArrowHead(Added[i])>> : i \in Arrows}

IsPlotMap == call.op = "plot_map"

(***************************************************************************)
(* C1 as stated: plot_map draws exactly one arrow per relation pair (a, b) *)
(* of the map and no other primitive, each with its tail at the            *)
(* coordinates of the range element b and its head at those of the domain  *)
(* element a.                                                              *)
(***************************************************************************)
C1_RangeToDomain ==
    IsPlotMap =>
        /\ err = Ok
        /\ Len(Added) = Cardinality(call.map_data)
        /\ Arrows = 1..Len(Added)
        /\ ArrowEnds = {<<Coord(pr[2]), Coord(pr[1])>> : pr \in call.map_data}

(***************************************************************************)
(* C1 amended: plot_map draws exactly one arrow per relation pair (a, b)   *)
(* of the map and no other primitive, each with its tail at the            *)
(* coordinates of the domain element a and its head at those of the range  *)
(* element b.                                                              *)
(***************************************************************************)
C1_DomainToRange ==
    IsPlotMap =>
        /\ err = Ok
        /\ Len(Added) = Cardinality(call.map_data)
        /\ Arrows = 1..Len(Added)
        /\ ArrowEnds = {<<Coord(pr[1]), Coord(pr[2])>> : pr \in call.map_data}

\* a map with two pairs into one range point and a pair that is not a loop
C1_Witness ==
    /\ IsPlotMap
    /\ \E p \in call.map_data, q \in call.map_data :
          p # q /\ p[2] = q[2] /\ p[1] # p[2]
    /\ Len(Added) >= 2

IsScene == call.op = "plot_domain"

\* the domain, the dependences and the tiling of a scene in the target space
XDomain ==
    IF call.space = None THEN call.dom
    ELSE {pr[2] : pr \in {q \in call.space[1] : q[1] \in call.dom}}

XDeps ==
    IF call.space = None THEN call.dependences[1]
    ELSE {<<x[1][2], x[2][2]>> :
             x \in {y \in call.space[1] \X call.space[1] :
                       <<y[1][1], y[2][1]>> \in call.dependences[1]}}

XTiling ==
    IF call.space = None THEN call.tiling[1]
    ELSE {<<x[1][2], x[2][2]>> :
             x \in {y \in call.space[1] \X call.tiling[1] : y[1][1] = y[2][1]}}

\* the coordinate pairs of the rectangular hull of D widened by one, as the
\* geometry helper gives it
Margin(D) == {Coord(p) : p \in get_rectangular_hull(D, 1)}

\* a plot call over exactly the points of cs, each once
PlotsExactly(prim, cs) ==
    /\ prim.kind = "plot"
    /\ PlotPoints(prim) = cs
    /\ Len(prim.x) = Cardinality(cs)
    /\ Len(prim.y) = Cardinality(cs)

(***************************************************************************)
(* C2: plot_domain with background set, no dependences and no tiling, with *)
(* or without a transform, adds exactly two primitives: a plot call over   *)
(* the points of the rectangular hull of the (transformed) domain widened  *)
(* by 1, then a plot call over the (transformed) domain's points; no arrow *)
(* and no polygon.                                                         *)
(***************************************************************************)
C2_BackgroundThenDomain ==
    (IsScene /\ call.background /\ call.dependences = None /\ call.tiling = None) =>
        /\ err = Ok
        /\ Len(Added) = 2
        /\ PlotsExactly(Added[1], Margin(XDomain))
        /\ PlotsExactly(Added[2], {Coord(p) : p \in XDomain})
        /\ Arrows = {}
        /\ Patches = {}

C2_Witness ==
    /\ IsScene /\ call.background /\ call.dependences = None /\ call.tiling = None
    /\ call.space # None
    /\ Cardinality(call.dom) >= 2
    /\ XDomain # call.dom
    /\ Len(Added) = 2

\* a and b share a tile id
SameTile(a, b) == \E t \in range(XTiling) : <<a, t>> \in XTiling /\ <<b, t>> \in XTiling

\* the pairs of a scene that the claim says get an arrow
ShownPairs ==
    {pr \in XDeps :
        /\ pr[1] \in XDomain
        /\ pr[2] \in XDomain
        /\ call.tiling # None => ~SameTile(pr[1], pr[2])}

(***************************************************************************)
(* C3: with a dependence map given, plot_domain draws an arrow for a pair  *)
(* (a, b) if and only if (a, b) is in the (transformed) dependence map, a  *)
(* and b both lie in the (transformed) domain and, when a tiling is given, *)
(* the tiling maps a and b to no common tile id; one arrow per such pair.  *)
(***************************************************************************)
C3_ArrowsOfScene ==
    (IsScene /\ call.dependences # None) =>
        /\ ArrowEnds = {<<Coord(pr[1]), Coord(pr[2])>> : pr \in ShownPairs}
        /\ Cardinality(Arrows) = Cardinality(ShownPairs)

\* a transformed scene with a tiling where one pair is drawn, one is left out
\* for its common tile and one for an end point outside the domain
C3_Witness ==
    /\ IsScene /\ call.dependences # None /\ call.tiling # None /\ call.space # None
    /\ ShownPairs # {}
    /\ \E pr \in XDeps : pr[1] \in XDomain /\ pr[2] \in XDomain /\ SameTile(pr[1], pr[2])
    /\ \E pr \in XDeps : pr[1] \in XDomain /\ pr[2] \notin XDomain
    /\ Arrows # {}

IsShape == call.op = "plot_bset_shape"

(***************************************************************************)
(* C4: plot_bset_shape on an unbounded basic set fails with the            *)
(* boundedness assertion before any vertex extraction, and the canvas      *)
(* holds exactly the primitives it held before the call.                   *)
(***************************************************************************)
C4_UnboundedFailsFirst ==
    (IsShape /\ call.bset_data.rays # {}) =>
        /\ err = BoundedError
        /\ \A i \in 1..Len(log) : log[i] # "bset_get_vertex_coordinates"
        /\ canvas = before

C4_Witness ==
    /\ IsShape
    /\ call.bset_data.rays # {}
    /\ call.show_vertices
    /\ Cardinality(call.bset_data.pts) >= 3
    /\ before # <<>>
    /\ err = BoundedError

\* the corners the geometry library returns for the basic set of the call
Vertices == bset_get_vertex_coordinates(call.bset_data)

(***************************************************************************)
(* C6: plot_bset_shape on a bounded basic set with zero vertices makes the *)
(* vertex plot call, with empty coordinate lists, if and only if           *)
(* show_vertices is set, and adds no polygon patch.                        *)
(***************************************************************************)
C6_NoVerticesNoPolygon ==
    (IsShape /\ call.bset_data.rays = {} /\ Len(Vertices) = 0) =>
        /\ err = Ok
        /\ Patches = {}
        /\ call.show_vertices =>
              /\ Len(Added) = 1
              /\ Added[1].kind = "plot"
              /\ Added[1].x = <<>>
              /\ Added[1].y = <<>>
        /\ ~call.show_vertices => Added = <<>>

C6_Witness ==
    /\ IsShape
    /\ call.bset_data.rays = {}
    /\ Len(Vertices) = 0
    /\ call.show_vertices
    /\ Len(Added) = 1

(***************************************************************************)
(* C10: for a bounded basic set with n >= 1 vertices plot_bset_shape adds  *)
(* exactly one polygon, whose path has n+1 entries: the first vertex with  *)
(* a MOVETO code, vertices 2..n with LINETO codes in the order the library *)
(* returned them, and one final CLOSEPOLY entry.                           *)
(***************************************************************************)
C10_ClosedPath ==
    (IsShape /\ call.bset_data.rays = {} /\ Len(Vertices) >= 1) =>
        /\ err = Ok
        /\ Patches = {Len(Added)}
        /\ LET patch == Added[Len(Added)]
               n == Len(Vertices)
           IN /\ Len(patch.verts) = n + 1
              /\ Len(patch.codes) = n + 1
              /\ patch.codes[1] = "MOVETO"
              /\ \A i \in 2..n : patch.codes[i] = "LINETO"
              /\ patch.codes[n + 1] = "CLOSEPOLY"
              /\ \A i \in 1..n : patch.verts[i] = Vertices[i]

\* a triangle or a larger polygon, whose corners are not in lexicographic order
C10_Witness ==
    /\ IsShape
    /\ call.bset_data.rays = {}
    /\ Len(Vertices) >= 3
    /\ \E i \in 1..(Len(Vertices) - 1) :
          ~LexLess(Pt(Vertices[i][1], Vertices[i][2]),
                   Pt(Vertices[i + 1][1], Vertices[i + 1][2]))
    /\ Patches # {}

IsGroups == call.op = "plot_map_as_groups"

\* the members of group t of map m, and whether they fill their convex hull
Members(m, t) == {pr[1] : pr \in {q \in m : q[2] = t}}

Convex(S) == convex_hull(S).pts = S

\* the group ids of m in the order the library enumerates them
GroupIds(m) == foreach_point(range(m))

\* the position of the first group of m that is not convex (0 when all are)
FirstBad(m) ==
    LET ids == GroupIds(m)
        bad == {i \in 1..Len(ids) : ~Convex(Members(m, ids[i]))}
    IN IF bad = {} THEN 0 ELSE Min(bad)

\* the coordinate pairs a primitive of a group shows
Shown(prim) ==
    IF prim.kind = "plot" THEN PlotPoints(prim)
    ELSE IF prim.kind = "patch"
         THEN {prim.verts[i] : i \in 1..(Len(prim.verts) - 1)}
         ELSE {ArrowTail(prim), ArrowHead(prim)}

\* the primitives seq shows the groups 1..k of m and nothing of the others:
\* each primitive lies within one of these groups, each group has its points
\* plotted
ShowsGroups(seq, m, k) ==
    LET ids == GroupIds(m)
    IN /\ \A j \in 1..Len(seq) : \E i \in 1..k :
              Shown(seq[j]) \subseteq {Coord(p) : p \in Members(m, ids[i])}
       /\ \A i \in 1..k : \E j \in 1..Len(seq) :
              PlotsExactly(seq[j], {Coord(p) : p \in Members(m, ids[i])})

(***************************************************************************)
(* C5: plot_map_as_groups on a map with a group that does not equal its    *)
(* convex hull fails with the group-convexity assertion when that group is *)
(* reached: the groups enumerated before it are drawn, nothing of that     *)
(* group and nothing of a later group is.                                  *)
(***************************************************************************)
C5_NonConvexGroupFails ==
    (IsGroups /\ FirstBad(call.bmap) > 0) =>
        /\ err = ConvexError
        /\ ShowsGroups(Added, call.bmap, FirstBad(call.bmap) - 1)

\* the failing group comes after a drawn one and before another group
C5_Witness ==
    /\ IsGroups
    /\ FirstBad(call.bmap) = 2
    /\ Len(GroupIds(call.bmap)) >= 2
    /\ err = ConvexError
    /\ Added # <<>>

\* the tiling that plot_domain hands to plot_map_as_groups
SceneGroups == {pr \in XTiling : pr[1] \in XDomain}

Background == IF call.background THEN 1 ELSE 0

(***************************************************************************)
(* C7: in every plot_domain call the primitives come in the order          *)
(* background, domain points, dependence arrows, tile shapes: the          *)
(* background plot (if any) is first, the plot of the domain points        *)
(* follows it, the arrows follow that plot without a gap, and every        *)
(* primitive of a tile group comes after every arrow.                      *)
(***************************************************************************)
C7_LayerOrder ==
    IsScene =>
        /\ Len(Added) >= Background + 1
        /\ call.background =>
              /\ Added[1].kind = "plot"
              /\ Added[1].color = "lightgray"
        /\ PlotsExactly(Added[Background + 1], {Coord(p) : p \in XDomain})
        /\ Added[Background + 1].color = "black"
        /\ \A j \in Arrows : (Background + 2)..j \subseteq Arrows
        /\ \A j \in Patches : \A i \in Arrows : i < j
        /\ call.tiling # None =>
              \A j \in (Background + 2 + Cardinality(Arrows))..Len(Added) :
                  \E t \in range(SceneGroups) :
                      Shown(Added[j]) \subseteq
                          {Coord(p) : p \in Members(SceneGroups, t)}

\* a scene that draws all four layers
C7_Witness ==
    /\ IsScene
    /\ call.background
    /\ Cardinality(Arrows) >= 2
    /\ Patches # {}
    /\ err = Ok

(***************************************************************************)
(* C9: when plot_domain fails at the group-convexity assertion, what it    *)
(* drew before is on the canvas in its original order after the earlier    *)
(* contents: background points (if asked for), domain points, the          *)
(* dependence arrows, then points, vertex marks and polygon of each group  *)
(* enumerated before the failing one; nothing else follows.                *)
(***************************************************************************)
C9_FailureKeepsDrawing ==
    (IsScene /\ err = ConvexError) =>
        LET k == FirstBad(SceneGroups) - 1
            shown == IF call.dependences = None THEN 0
                     ELSE Cardinality(ShownPairs)
            base == Background + 1 + shown
        IN /\ k >= 0
           /\ SubSeq(canvas, 1, Len(before)) = before
           /\ Len(canvas) = Len(before) + base + 3 * k
           /\ call.background =>
                 (Added[1].kind = "plot" /\ Added[1].color = "lightgray")
           /\ PlotsExactly(Added[Background + 1], {Coord(p) : p \in XDomain})
           /\ Arrows = (Background + 2)..base
           /\ \A i \in 1..k :
                 LET pts == {Coord(p) : p \in Members(SceneGroups, GroupIds(SceneGroups)[i])}
                     at == base + 3 * (i - 1)
                 IN /\ PlotsExactly(Added[at + 1], pts)
                    /\ Added[at + 2].kind = "plot"
                    /\ Added[at + 3].kind = "patch"
                    /\ Shown(Added[at + 2]) \subseteq pts
                    /\ Shown(Added[at + 3]) = Shown(Added[at + 2])

\* a failing scene over earlier contents with every layer drawn before the
\* failure
C9_Witness ==
    /\ IsScene
    /\ err = ConvexError
    /\ before # <<>>
    /\ call.background
    /\ Arrows # {}
    /\ Patches # {}
====
